---------------------------- MODULE Spec2Model ----------------------------
(***************************************************************************)
(* Model of geneva_drive/main.assy.py: the part classes of a four-slot     *)
(* Geneva drive and the assemblies that place them.                        *)
(*                                                                         *)
(* A number of the script is a float of the form (a + b*sqrt(2)); it is    *)
(* kept exactly as the pair <<a*Scale, b*Scale>>.  Float rounding (about   *)
(* 1e-14 mm) is not modelled.  An angle is kept in degrees (Pi == 180).    *)
(***************************************************************************)
EXTENDS Integers, Sequences, FiniteSets

(* How many constructor calls a behaviour makes at top level. *)
MaxConstructions == 2

---------------------------------------------------------------------------
(* Arithmetic of the script's floats, exact in Q(sqrt 2). *)

Scale == 100

Num(n) == <<n * Scale, 0>>

Frac(n, d) == <<(n * Scale) \div d, 0>>

Zero == Num(0)

Add(x, y) == <<x[1] + y[1], x[2] + y[2]>>

Neg(x) == <<0 - x[1], 0 - x[2]>>

Sub(x, y) == Add(x, Neg(y))

Mul(x, y) ==
    << (x[1] * y[1] + 2 * x[2] * y[2]) \div Scale,
       (x[1] * y[2] + x[2] * y[1]) \div Scale >>

DivN(x, n) == <<x[1] \div n, x[2] \div n>>

DivSqrt2(x) == <<x[2], x[1] \div 2>>

(* The sign of a + b*sqrt(2): -1, 0 or 1. *)
Sign(x) ==
    LET a == x[1]
        b == x[2]
    IN  IF a = 0 /\ b = 0 THEN 0
        ELSE IF a >= 0 /\ b >= 0 THEN 1
        ELSE IF a <= 0 /\ b <= 0 THEN 0 - 1
        ELSE IF a > 0 THEN (IF a * a > 2 * b * b THEN 1 ELSE 0 - 1)
        ELSE (IF 2 * b * b > a * a THEN 1 ELSE 0 - 1)

Leq(x, y) == Sign(Sub(y, x)) >= 0

Pi == 180

Cos(deg) ==
    LET d == deg % 360
        h == <<0, Scale \div 2>>
    IN  CASE d = 0   -> Num(1)
          [] d = 45  -> h
          [] d = 90  -> Zero
          [] d = 135 -> Neg(h)
          [] d = 180 -> Neg(Num(1))
          [] d = 225 -> Neg(h)
          [] d = 270 -> Zero
          [] d = 315 -> h

Sin(deg) == Cos(deg + 270)

---------------------------------------------------------------------------
(* Module-level dimensions. *)

BASE_WIDTH == Num(50)
BASE_LENGTH == Num(100)
PIN_DISTANCE == Mul(BASE_LENGTH, Frac(5, 10))
PIN_DIAMETER == Num(4)
DISK_DIAMETER == Add(DivSqrt2(Mul(Num(2), PIN_DISTANCE)), PIN_DIAMETER)
SLIDING_CIRCLE_DIAMETER == Mul(DISK_DIAMETER, Frac(8, 10))
BEARING_HEIGHT == Num(6)
BEARING_DIAMETER == Num(19)
BEARING_INNER_DIAMETER == Num(6)
PLATE_THICKNESS == Num(2)
PIN_HEIGHT == Num(8)
LIP_HEIGHT == Num(2)
DISK_TOLERANCE == Frac(5, 10)
BEARING_PLATE_OFFSET == Num(3)
CIRCLES_PART_HEIGHT == Add(Add(PLATE_THICKNESS, LIP_HEIGHT), BEARING_PLATE_OFFSET)
CROSS_PART_HEIGHT == Add(CIRCLES_PART_HEIGHT, PLATE_THICKNESS)

---------------------------------------------------------------------------
(* The foundation library's objects, as records of what they are given. *)

Origin == <<Zero, Zero>>

Point(x, y) == <<x, y>>

Sketch(name, offset) == [plane |-> name, offset |-> offset]

Circle(center, radius) ==
    [shape |-> "Circle", center |-> center, radius |-> radius]

RoundedCornerRectangle(center, length, width, radius) ==
    [shape |-> "RoundedCornerRectangle", center |-> center,
     length |-> length, width |-> width, radius |-> radius]

Line(p1, p2) == <<p1, p2>>

Polygon(lines) == [shape |-> "Polygon", lines |-> lines]

Extrusion(sketch, shape, start, end, cut) ==
    [op |-> "Extrusion", sketch |-> sketch, shape |-> shape,
     start |-> start, end |-> end, cut |-> cut]

Lathe(sketch, shape, axis) ==
    [op |-> "Lathe", sketch |-> sketch, shape |-> shape, axis |-> axis,
     cut |-> FALSE]

Part(cls) == [cls |-> cls, ops |-> <<>>, color |-> "none"]

add_operation(self, op) == [self EXCEPT !.ops = Append(@, op)]

paint(self, color) == [self EXCEPT !.color = color]

Assembly(cls) == [cls |-> cls, components |-> <<>>]

add_component(self, obj, tf) ==
    [self EXCEPT !.components = Append(@, [obj |-> obj, tf |-> tf])]

TFHelper == [x |-> Zero, y |-> Zero, z |-> Zero]

translate_x(tf, d) == [tf EXCEPT !.x = Add(@, d)]

translate_z(tf, d) == [tf EXCEPT !.z = Add(@, d)]

(* add_component called without a transform, and with get_tf(). *)
NoTf == <<>>

get_tf(tf) == <<tf>>

(* The pencil of a sketch: it starts at the origin and records its path. *)
Pencil == [x |-> Zero, y |-> Zero, pts |-> <<Origin>>]

line_to(pen, x, y) == [x |-> x, y |-> y, pts |-> Append(pen.pts, <<x, y>>)]

line(pen, dx, dy) == line_to(pen, Add(pen.x, dx), Add(pen.y, dy))

close(pen) ==
    Polygon([k \in 1..Len(pen.pts) |->
                Line(pen.pts[k], pen.pts[(k % Len(pen.pts)) + 1])])

---------------------------------------------------------------------------
(* class BallBearing626D(Part) *)

BallBearing626D_HEIGHT == BEARING_HEIGHT

create_outer_cylinder(self) ==
    LET sketch == Sketch("xy", Zero)
        outer_circle == Circle(Origin, DivN(BEARING_DIAMETER, 2))
    IN  add_operation(self,
            Extrusion(sketch, outer_circle, Zero, BallBearing626D_HEIGHT, FALSE))

(* Variant with a slip: the hole extrusion without cut=True. *)
hole_extrusion_not_cut ==
    Extrusion(Sketch("xy", Zero), Circle(Origin, DivN(BEARING_INNER_DIAMETER, 2)),
              Zero, BallBearing626D_HEIGHT, FALSE)

hole_extrusion ==
    LET sketch == Sketch("xy", Zero)
        inner_circle == Circle(Origin, DivN(BEARING_INNER_DIAMETER, 2))
    IN  Extrusion(sketch, inner_circle, Zero, BallBearing626D_HEIGHT, TRUE)

create_inner_hole(self) == add_operation(self, hole_extrusion)

BallBearing626D ==
    paint(create_inner_hole(create_outer_cylinder(Part("BallBearing626D"))),
          "grey")

---------------------------------------------------------------------------
(* class RoundedRectangularPlateWithPins(Part) *)

Plate_PIN_DIAMETER == Num(6)
Plate_LIP_DIAMETER == Num(8)
Plate_PIN_HEIGHT == Num(6)
Plate_FILLET_RADIUS == Num(5)

create_plate(self) ==
    LET sketch == Sketch("xy", Zero)
        plate == RoundedCornerRectangle(Origin, BASE_LENGTH, BASE_WIDTH,
                                        Plate_FILLET_RADIUS)
    IN  add_operation(self, Extrusion(sketch, plate, Zero, PLATE_THICKNESS, FALSE))

pin1_center == Point(Neg(DivN(PIN_DISTANCE, 2)), Zero)

(* Variant with a slip: the second centre at PIN_DISTANCE, not half of it. *)
pin2_center_not_halved == Point(PIN_DISTANCE, Zero)

pin2_center == Point(DivN(PIN_DISTANCE, 2), Zero)

create_pins(self) ==
    LET sketch == Sketch("xy", Zero)
        circle1 == Circle(pin1_center, DivN(Plate_LIP_DIAMETER, 2))
        lip1 == Extrusion(sketch, circle1, PLATE_THICKNESS, CIRCLES_PART_HEIGHT,
                          FALSE)
        pin1 == Extrusion(sketch, Circle(pin1_center, DivN(Plate_PIN_DIAMETER, 2)),
                    Sub(CIRCLES_PART_HEIGHT, BEARING_PLATE_OFFSET),
                    Sub(Add(CIRCLES_PART_HEIGHT, BEARING_HEIGHT),
                        BEARING_PLATE_OFFSET),
                    FALSE)
        circle2 == Circle(pin2_center, DivN(Plate_LIP_DIAMETER, 2))
        lip2 == Extrusion(sketch, circle2, PLATE_THICKNESS, CROSS_PART_HEIGHT,
                          FALSE)
        pin2 == Extrusion(sketch, Circle(pin2_center, DivN(Plate_PIN_DIAMETER, 2)),
                    Sub(CROSS_PART_HEIGHT, BEARING_PLATE_OFFSET),
                    Sub(Add(CROSS_PART_HEIGHT, BEARING_HEIGHT),
                        BEARING_PLATE_OFFSET),
                    FALSE)
    IN  add_operation(
          add_operation(
            add_operation(
              add_operation(self, lip1), pin1), lip2), pin2)

RoundedRectangularPlateWithPins ==
    paint(create_pins(create_plate(Part("RoundedRectangularPlateWithPins"))),
          "plywood")

---------------------------------------------------------------------------
(* class PlateWithBearingsAssembly(Assembly) *)

bearing1_tf ==
    translate_z(translate_x(TFHelper, Neg(DivN(PIN_DISTANCE, 2))),
                Sub(CIRCLES_PART_HEIGHT, BEARING_PLATE_OFFSET))

(* Variant with a slip: the second bearing at the first bearing's height. *)
bearing2_tf_at_circles_height ==
    translate_z(translate_x(TFHelper, DivN(PIN_DISTANCE, 2)),
                Sub(CIRCLES_PART_HEIGHT, BEARING_PLATE_OFFSET))

bearing2_tf ==
    translate_z(translate_x(TFHelper, DivN(PIN_DISTANCE, 2)),
                Sub(CROSS_PART_HEIGHT, BEARING_PLATE_OFFSET))

create_plate_with_bearings(self) ==
    LET plate == RoundedRectangularPlateWithPins
        bearing1 == BallBearing626D
        bearing2 == BallBearing626D
    IN  add_component(
          add_component(
            add_component(self, plate, NoTf),
            bearing1, get_tf(bearing1_tf)),
          bearing2, get_tf(bearing2_tf))

PlateWithBearingsAssembly ==
    create_plate_with_bearings(Assembly("PlateWithBearingsAssembly"))

---------------------------------------------------------------------------
(* class GenevaDiskAndHoles(Part) *)

Disk_PART_THICKNESS == Num(5)
Disk_STEP_HEIGHT == DivN(Disk_PART_THICKNESS, 2)
Disk_TOP_CIRCLE_DIAMETER == SLIDING_CIRCLE_DIAMETER
Disk_CUT_DIAMETER == SLIDING_CIRCLE_DIAMETER
Disk_CUT_OFFSET == PIN_DISTANCE

create_disk(self) ==
    LET sketch == Sketch("yz", Zero)
        p1 == line_to(Pencil, Zero, Sub(BEARING_HEIGHT, BEARING_PLATE_OFFSET))
        p2 == line(p1, DivN(BEARING_DIAMETER, 2), Zero)
        p3 == line(p2, Zero, Add(Neg(BEARING_HEIGHT), BEARING_PLATE_OFFSET))
        p4 == line_to(p3, DivN(DISK_DIAMETER, 2), p3.y)
        p5 == line(p4, Zero, Disk_STEP_HEIGHT)
        p6 == line_to(p5, DivN(Sub(Disk_TOP_CIRCLE_DIAMETER, DISK_TOLERANCE), 2),
                      p5.y)
        p7 == line(p6, Zero, Disk_STEP_HEIGHT)
        p8 == line_to(p7, Zero, p7.y)
        shape == close(p8)
        axis == Line(Origin, Point(Zero, Num(1)))
    IN  add_operation(self, Lathe(sketch, shape, axis))

add_circle_cut(self) ==
    LET cut_sketch == Sketch("xy", Disk_STEP_HEIGHT)
        shape == Circle(Point(Zero, Disk_CUT_OFFSET), DivN(Disk_CUT_DIAMETER, 2))
    IN  add_operation(self,
            Extrusion(cut_sketch, shape, Zero, Add(Disk_STEP_HEIGHT, LIP_HEIGHT),
                      TRUE))

add_turning_pin(self) ==
    LET sketch == Sketch("xy", Mul(Num(2), Disk_STEP_HEIGHT))
        pin_center == Point(Mul(Frac(8, 10), DivN(Disk_TOP_CIRCLE_DIAMETER, 2)),
                            Zero)
        pin_circle == Circle(pin_center, DivN(PIN_DIAMETER, 2))
    IN  add_operation(self, Extrusion(sketch, pin_circle, Zero, PIN_HEIGHT, FALSE))

add_sliding_pin(self) ==
    LET sketch == Sketch("xy", Disk_STEP_HEIGHT)
        pin_center == Point(Zero, DivSqrt2(PIN_DISTANCE))
        pin_circle == Circle(pin_center, DivN(PIN_DIAMETER, 2))
    IN  add_operation(self, Extrusion(sketch, pin_circle, Zero, PIN_HEIGHT, FALSE))

GenevaDiskAndHoles ==
    paint(add_sliding_pin(add_turning_pin(add_circle_cut(create_disk(
              Part("GenevaDiskAndHoles"))))),
          "beige")

---------------------------------------------------------------------------
(* class GenevaDriveCrossSection(Part) *)

WIDTH == SLIDING_CIRCLE_DIAMETER
CUT_OFFSET == PIN_DISTANCE
CUT_RADIUS == DivN(SLIDING_CIRCLE_DIAMETER, 2)
SLOT_START_OFFSET == Sub(PIN_DISTANCE, DivN(DISK_DIAMETER, 2))
CENTER_SLOT_OFFSET == DivN(WIDTH, 2)
SLOT_LENGTH == Mul(Sub(CENTER_SLOT_OFFSET, SLOT_START_OFFSET), Num(2))
SLOT_WIDTH == Add(PIN_DIAMETER, Num(1))
CROSS_WIDTH == Sub(Add(Num(1), BEARING_HEIGHT), BEARING_PLATE_OFFSET)

add_base_circle(self) ==
    LET sketch == Sketch("xy", Zero)
        base_circle == Circle(Origin, DivN(WIDTH, 2))
    IN  add_operation(self, Extrusion(sketch, base_circle, Zero, CROSS_WIDTH, FALSE))

CutCirclePoints ==
    << Point(Zero, CUT_OFFSET), Point(Zero, Neg(CUT_OFFSET)),
       Point(CUT_OFFSET, Zero), Point(Neg(CUT_OFFSET), Zero) >>

RECURSIVE cut_circles_from(_, _)
cut_circles_from(self, k) ==
    IF k > Len(CutCirclePoints) THEN self
    ELSE LET sketch == Sketch("xy", Zero)
             circle == Circle(CutCirclePoints[k], CUT_RADIUS)
             cut_extrusion == Extrusion(sketch, circle, Zero, CROSS_WIDTH, TRUE)
         IN  cut_circles_from(add_operation(self, cut_extrusion), k + 1)

cut_4_circles(self) == cut_circles_from(self, 1)

(* range(4) *)
SlotCount == 4

(* Variant with a slip: the orientation without the pi/4 offset. *)
slot_orientation_no_quarter(i) == (i * Pi) \div 2

slot_orientation(i) == (i * Pi) \div 2 + Pi \div 4

slot_extrusion(i) ==
    LET sketch == Sketch("xy", Zero)
        orientation == slot_orientation(i)
        px == Mul(Cos(orientation), CENTER_SLOT_OFFSET)
        py == Mul(Sin(orientation), CENTER_SLOT_OFFSET)
        dx_len == DivN(Mul(Cos(orientation), SLOT_LENGTH), 2)
        dy_len == DivN(Mul(Sin(orientation), SLOT_LENGTH), 2)
        dx_width == DivN(Mul(Sin(orientation), SLOT_WIDTH), 2)
        dy_width == DivN(Mul(Neg(Cos(orientation)), SLOT_WIDTH), 2)
        points ==
            << Point(Add(Sub(px, dx_len), dx_width), Add(Sub(py, dy_len), dy_width)),
               Point(Sub(Sub(px, dx_len), dx_width), Sub(Sub(py, dy_len), dy_width)),
               Point(Sub(Add(px, dx_len), dx_width), Sub(Add(py, dy_len), dy_width)),
               Point(Add(Add(px, dx_len), dx_width), Add(Add(py, dy_len), dy_width)) >>
        lines == [k \in 1..(Len(points) - 1) |-> Line(points[k], points[k + 1])]
        slot_shape == Polygon(lines)
    IN  Extrusion(sketch, slot_shape, Zero, CROSS_WIDTH, TRUE)

RECURSIVE cut_slots_from(_, _)
cut_slots_from(self, i) ==
    IF i >= SlotCount THEN self
    ELSE cut_slots_from(add_operation(self, slot_extrusion(i)), i + 1)

cut_pin_slot(self) == cut_slots_from(self, 0)

cut_bearing_hole(self) ==
    LET sketch == Sketch("xy", Zero)
        bearing_hole == Circle(Origin, DivN(BEARING_DIAMETER, 2))
    IN  add_operation(self,
            Extrusion(sketch, bearing_hole, Zero, Sub(CROSS_WIDTH, Num(1)), TRUE))

GenevaDriveCrossSection ==
    paint(cut_bearing_hole(cut_pin_slot(cut_4_circles(add_base_circle(
              Part("GenevaDriveCrossSection"))))),
          "brown")

---------------------------------------------------------------------------
(* class GenevaDrive(Assembly) *)

add_plate_with_bearings(self) ==
    add_component(self, PlateWithBearingsAssembly, NoTf)

(* Variant with a slip: the disk on the cross-section's side. *)
disk_tf_positive_x ==
    translate_x(translate_z(TFHelper, CIRCLES_PART_HEIGHT), DivN(PIN_DISTANCE, 2))

disk_tf ==
    translate_x(translate_z(TFHelper, CIRCLES_PART_HEIGHT),
                Neg(DivN(PIN_DISTANCE, 2)))

add_geneva_disk_and_holes(self) ==
    LET disk == GenevaDiskAndHoles
    IN  add_component(self, disk, get_tf(disk_tf))

cross_section_tf ==
    translate_x(translate_z(TFHelper, CROSS_PART_HEIGHT), DivN(PIN_DISTANCE, 2))

add_geneva_drive_cross_section(self) ==
    LET cross_section == GenevaDriveCrossSection
    IN  add_component(self, cross_section, get_tf(cross_section_tf))

GenevaDrive ==
    add_geneva_drive_cross_section(add_geneva_disk_and_holes(
        add_plate_with_bearings(Assembly("GenevaDrive"))))

---------------------------------------------------------------------------
VARIABLES objs, cur, pc

vars == <<objs, cur, pc>>

(* The constructor call in progress (cur, empty when none), the method   *)
(* __init__ calls next (pc), and the objects already returned (objs).   *)

Init == objs = <<>> /\ cur = <<>> /\ pc = "idle"

New(obj, first) ==
    /\ pc = "idle"
    /\ Len(objs) < MaxConstructions
    /\ cur' = <<obj>>
    /\ pc' = first
    /\ UNCHANGED objs

Call(at, result, next) ==
    /\ pc = at
    /\ cur' = <<result>>
    /\ pc' = next
    /\ UNCHANGED objs

(* BallBearing626D.__init__ *)
BallBearing626D_new ==
    New(Part("BallBearing626D"), "BallBearing626D.create_outer_cylinder")

BallBearing626D_create_outer_cylinder ==
    Call("BallBearing626D.create_outer_cylinder",
         create_outer_cylinder(cur[1]), "BallBearing626D.create_inner_hole")

BallBearing626D_create_inner_hole ==
    Call("BallBearing626D.create_inner_hole",
         create_inner_hole(cur[1]), "BallBearing626D.paint")

BallBearing626D_paint ==
    Call("BallBearing626D.paint", paint(cur[1], "grey"), "return")

(* RoundedRectangularPlateWithPins.__init__ *)
RoundedRectangularPlateWithPins_new ==
    New(Part("RoundedRectangularPlateWithPins"),
        "RoundedRectangularPlateWithPins.create_plate")

RoundedRectangularPlateWithPins_create_plate ==
    Call("RoundedRectangularPlateWithPins.create_plate",
         create_plate(cur[1]), "RoundedRectangularPlateWithPins.create_pins")

RoundedRectangularPlateWithPins_create_pins ==
    Call("RoundedRectangularPlateWithPins.create_pins",
         create_pins(cur[1]), "RoundedRectangularPlateWithPins.paint")

RoundedRectangularPlateWithPins_paint ==
    Call("RoundedRectangularPlateWithPins.paint",
         paint(cur[1], "plywood"), "return")

(* PlateWithBearingsAssembly.__init__ *)
PlateWithBearingsAssembly_new ==
    New(Assembly("PlateWithBearingsAssembly"),
        "PlateWithBearingsAssembly.create_plate_with_bearings")

PlateWithBearingsAssembly_create_plate_with_bearings ==
    Call("PlateWithBearingsAssembly.create_plate_with_bearings",
         create_plate_with_bearings(cur[1]), "return")

(* GenevaDiskAndHoles.__init__ *)
GenevaDiskAndHoles_new ==
    New(Part("GenevaDiskAndHoles"), "GenevaDiskAndHoles.create_disk")

GenevaDiskAndHoles_create_disk ==
    Call("GenevaDiskAndHoles.create_disk",
         create_disk(cur[1]), "GenevaDiskAndHoles.add_circle_cut")

GenevaDiskAndHoles_add_circle_cut ==
    Call("GenevaDiskAndHoles.add_circle_cut",
         add_circle_cut(cur[1]), "GenevaDiskAndHoles.add_turning_pin")

GenevaDiskAndHoles_add_turning_pin ==
    Call("GenevaDiskAndHoles.add_turning_pin",
         add_turning_pin(cur[1]), "GenevaDiskAndHoles.add_sliding_pin")

GenevaDiskAndHoles_add_sliding_pin ==
    Call("GenevaDiskAndHoles.add_sliding_pin",
         add_sliding_pin(cur[1]), "GenevaDiskAndHoles.paint")

GenevaDiskAndHoles_paint ==
    Call("GenevaDiskAndHoles.paint", paint(cur[1], "beige"), "return")

(* GenevaDriveCrossSection.__init__ *)
GenevaDriveCrossSection_new ==
    New(Part("GenevaDriveCrossSection"),
        "GenevaDriveCrossSection.add_base_circle")

GenevaDriveCrossSection_add_base_circle ==
    Call("GenevaDriveCrossSection.add_base_circle",
         add_base_circle(cur[1]), "GenevaDriveCrossSection.cut_4_circles")

GenevaDriveCrossSection_cut_4_circles ==
    Call("GenevaDriveCrossSection.cut_4_circles",
         cut_4_circles(cur[1]), "GenevaDriveCrossSection.cut_pin_slot")

GenevaDriveCrossSection_cut_pin_slot ==
    Call("GenevaDriveCrossSection.cut_pin_slot",
         cut_pin_slot(cur[1]), "GenevaDriveCrossSection.cut_bearing_hole")

GenevaDriveCrossSection_cut_bearing_hole ==
    Call("GenevaDriveCrossSection.cut_bearing_hole",
         cut_bearing_hole(cur[1]), "GenevaDriveCrossSection.paint")

GenevaDriveCrossSection_paint ==
    Call("GenevaDriveCrossSection.paint", paint(cur[1], "brown"), "return")

(* GenevaDrive.__init__ *)
GenevaDrive_new ==
    New(Assembly("GenevaDrive"), "GenevaDrive.add_plate_with_bearings")

GenevaDrive_add_plate_with_bearings ==
    Call("GenevaDrive.add_plate_with_bearings",
         add_plate_with_bearings(cur[1]),
         "GenevaDrive.add_geneva_disk_and_holes")

GenevaDrive_add_geneva_disk_and_holes ==
    Call("GenevaDrive.add_geneva_disk_and_holes",
         add_geneva_disk_and_holes(cur[1]),
         "GenevaDrive.add_geneva_drive_cross_section")

GenevaDrive_add_geneva_drive_cross_section ==
    Call("GenevaDrive.add_geneva_drive_cross_section",
         add_geneva_drive_cross_section(cur[1]), "return")

(* __init__ returns: the caller holds the object. *)
Return ==
    /\ pc = "return"
    /\ objs' = Append(objs, cur[1])
    /\ cur' = <<>>
    /\ pc' = "idle"

Next ==
    \/ BallBearing626D_new
    \/ BallBearing626D_create_outer_cylinder
    \/ BallBearing626D_create_inner_hole
    \/ BallBearing626D_paint
    \/ RoundedRectangularPlateWithPins_new
    \/ RoundedRectangularPlateWithPins_create_plate
    \/ RoundedRectangularPlateWithPins_create_pins
    \/ RoundedRectangularPlateWithPins_paint
    \/ PlateWithBearingsAssembly_new
    \/ PlateWithBearingsAssembly_create_plate_with_bearings
    \/ GenevaDiskAndHoles_new
    \/ GenevaDiskAndHoles_create_disk
    \/ GenevaDiskAndHoles_add_circle_cut
    \/ GenevaDiskAndHoles_add_turning_pin
    \/ GenevaDiskAndHoles_add_sliding_pin
    \/ GenevaDiskAndHoles_paint
    \/ GenevaDriveCrossSection_new
    \/ GenevaDriveCrossSection_add_base_circle
    \/ GenevaDriveCrossSection_cut_4_circles
    \/ GenevaDriveCrossSection_cut_pin_slot
    \/ GenevaDriveCrossSection_cut_bearing_hole
    \/ GenevaDriveCrossSection_paint
    \/ GenevaDrive_new
    \/ GenevaDrive_add_plate_with_bearings
    \/ GenevaDrive_add_geneva_disk_and_holes
    \/ GenevaDrive_add_geneva_drive_cross_section
    \/ Return

Spec == Init /\ [][Next]_vars

---------------------------------------------------------------------------
(* Views of the state used by the properties below. *)

Top == {objs[k] : k \in 1..Len(objs)} \cup {cur[k] : k \in 1..Len(cur)}

IsAssembly(o) == "components" \in DOMAIN o

Children(O) ==
    UNION {{a.components[k].obj : k \in 1..Len(a.components)} :
              a \in {o \in O : IsAssembly(o)}}

Everything == Top \cup Children(Top) \cup Children(Children(Top))

Returned ==
    {objs[k] : k \in 1..Len(objs)} \cup Children(Top) \cup Children(Children(Top))

PartsOf(cls) == {o \in Everything : o.cls = cls}

AllParts == {o \in Everything : ~IsAssembly(o)}

Classes(a) == [k \in 1..Len(a.components) |-> a.components[k].obj.cls]

IsPrefix(s, t) == Len(s) <= Len(t) /\ \A k \in 1..Len(s) : s[k] = t[k]

(* Every object a finished constructor returned is the value of the class's *)
(* constructor expression: the stepwise and the nested constructions agree.  *)
ConstructorsAgree ==
    \A o \in Returned :
        o = CASE o.cls = "BallBearing626D" -> BallBearing626D
              [] o.cls = "RoundedRectangularPlateWithPins" ->
                     RoundedRectangularPlateWithPins
              [] o.cls = "PlateWithBearingsAssembly" -> PlateWithBearingsAssembly
              [] o.cls = "GenevaDiskAndHoles" -> GenevaDiskAndHoles
              [] o.cls = "GenevaDriveCrossSection" -> GenevaDriveCrossSection
              [] o.cls = "GenevaDrive" -> GenevaDrive

(* The squares of a number and of a point's distance from the origin, in   *)
(* units of 1/Scale^2 (no division).                                        *)
Sq(x) == <<x[1] * x[1] + 2 * x[2] * x[2], 2 * x[1] * x[2]>>

NormSq(p) == Add(Sq(p[1]), Sq(p[2]))

(* The direction of a point that lies on an axis or a diagonal, in degrees; *)
(* -1 for any other point.                                                  *)
DirectionDeg(p) ==
    LET sx == Sign(p[1])
        sy == Sign(p[2])
    IN  CASE sx = 1 /\ sy = 0 -> 0
          [] sx = 1 /\ sy = 1 /\ p[1] = p[2] -> 45
          [] sx = 0 /\ sy = 1 -> 90
          [] sx = 0 - 1 /\ sy = 1 /\ Neg(p[1]) = p[2] -> 135
          [] sx = 0 - 1 /\ sy = 0 -> 180
          [] sx = 0 - 1 /\ sy = 0 - 1 /\ p[1] = p[2] -> 225
          [] sx = 0 /\ sy = 0 - 1 -> 270
          [] sx = 1 /\ sy = 0 - 1 /\ p[1] = Neg(p[2]) -> 315
          [] OTHER -> 0 - 1

(* A point of a part, seen from the assembly that holds the part at tf. *)
Placed(p, tf) == <<Add(p[1], tf.x), Add(p[2], tf.y)>>

PlateAssemblies ==
    {a \in Everything : a.cls = "PlateWithBearingsAssembly" /\ Len(a.components) > 0}

(* The operations of a plate that are circles of the given diameter around  *)
(* the given centre.                                                        *)
PlateCircles(plate, diameter, center) ==
    {k \in 1..Len(plate.ops) :
        /\ plate.ops[k].shape.shape = "Circle"
        /\ plate.ops[k].shape.radius = DivN(diameter, 2)
        /\ plate.ops[k].shape.center = center}

---------------------------------------------------------------------------
(* C1: in every PlateWithBearingsAssembly the two bearings are placed at    *)
(* x = -PIN_DISTANCE/2 and x = +PIN_DISTANCE/2 with no y translation, these *)
(* are the centres (y = 0) of the first and second lip and pin of the       *)
(* plate, and so each bearing's bore lies on the axis of its pin.           *)
C1_BearingsCoaxialWithPins ==
    \A a \in PlateAssemblies :
        LET plate == a.components[1].obj
            b1 == a.components[2]
            b2 == a.components[3]
            half == DivN(PIN_DISTANCE, 2)
            bore(b) == b.obj.ops[2]
        IN  /\ Len(a.components) = 3
            /\ a.components[1].tf = NoTf
            /\ Len(b1.tf) = 1 /\ Len(b2.tf) = 1
            /\ b1.tf[1].x = Neg(half) /\ b1.tf[1].y = Zero
            /\ b2.tf[1].x = half /\ b2.tf[1].y = Zero
            /\ plate.ops[2].shape.center = <<Neg(half), Zero>>
            /\ plate.ops[3].shape.center = <<Neg(half), Zero>>
            /\ plate.ops[4].shape.center = <<half, Zero>>
            /\ plate.ops[5].shape.center = <<half, Zero>>
            /\ bore(b1).cut /\ bore(b2).cut
            /\ Placed(bore(b1).shape.center, b1.tf[1]) = plate.ops[3].shape.center
            /\ Placed(bore(b2).shape.center, b2.tf[1]) = plate.ops[5].shape.center

(* A PlateWithBearingsAssembly() call at top level has returned. *)
C1_Witness ==
    \E k \in 1..Len(objs) :
        /\ objs[k].cls = "PlateWithBearingsAssembly"
        /\ Len(objs[k].components) = 3

(* C6: for each bearing of a PlateWithBearingsAssembly there is exactly one *)
(* plate pin at the bearing's x-position; the pin starts at the bearing's   *)
(* z-translation and ends BallBearing626D.HEIGHT above it, which is the     *)
(* z-range of the placed bearing.  The z-translations are                   *)
(* CIRCLES_PART_HEIGHT - BEARING_PLATE_OFFSET and                           *)
(* CROSS_PART_HEIGHT - BEARING_PLATE_OFFSET.                                *)
C6_PinSpansBearing ==
    \A a \in PlateAssemblies :
        LET plate == a.components[1].obj
            expected == << Sub(CIRCLES_PART_HEIGHT, BEARING_PLATE_OFFSET),
                           Sub(CROSS_PART_HEIGHT, BEARING_PLATE_OFFSET) >>
        IN  \A n \in {1, 2} :
                LET b == a.components[n + 1]
                    tf == b.tf[1]
                    pins == PlateCircles(plate, Plate_PIN_DIAMETER, <<tf.x, tf.y>>)
                IN  /\ b.obj.cls = "BallBearing626D"
                    /\ tf.z = expected[n]
                    /\ Cardinality(pins) = 1
                    /\ \A k \in pins :
                          /\ plate.ops[k].start = tf.z
                          /\ plate.ops[k].end = Add(tf.z, BallBearing626D_HEIGHT)
                          /\ plate.ops[k].start = Add(tf.z, b.obj.ops[1].start)
                          /\ plate.ops[k].end = Add(tf.z, b.obj.ops[1].end)

(* A GenevaDrive under construction holds its plate assembly. *)
C6_Witness ==
    /\ Len(cur) = 1
    /\ cur[1].cls = "GenevaDrive"
    /\ Len(cur[1].components) >= 1
    /\ cur[1].components[1].obj \in PlateAssemblies

(* C7, as claimed: each lip of the plate runs from z = PLATE_THICKNESS to   *)
(* z = PLATE_THICKNESS + LIP_HEIGHT and ends at or below the bottom face of *)
(* the bearing placed on its pin.                                           *)
C7_LipBelowBearing ==
    \A a \in PlateAssemblies :
        LET plate == a.components[1].obj
        IN  \A n \in {1, 2} :
                LET tf == a.components[n + 1].tf[1]
                    lips == PlateCircles(plate, Plate_LIP_DIAMETER, <<tf.x, tf.y>>)
                IN  /\ Cardinality(lips) = 1
                    /\ \A k \in lips :
                          /\ plate.ops[k].start = PLATE_THICKNESS
                          /\ plate.ops[k].end = Add(PLATE_THICKNESS, LIP_HEIGHT)
                          /\ Leq(plate.ops[k].end, tf.z)

(* C5, as claimed: the plate profile is extruded to 5 mm thickness. *)
C5_PlateFiveMillimetres ==
    \A o \in PartsOf("RoundedRectangularPlateWithPins") :
        Len(o.ops) >= 1 =>
            /\ o.ops[1].shape.shape = "RoundedCornerRectangle"
            /\ Sub(o.ops[1].end, o.ops[1].start) = Num(5)

---------------------------------------------------------------------------
(* What an operation is: its kind, the kind of its profile, cut or not. *)
Sig(op) == <<op.op, op.shape.shape, op.cut>>

Sigs(o) == [k \in 1..Len(o.ops) |-> Sig(o.ops[k])]

Added(shape) == <<"Extrusion", shape, FALSE>>

Removed(shape) == <<"Extrusion", shape, TRUE>>

ExpectedSigs(cls) ==
    CASE cls = "BallBearing626D" -> <<Added("Circle"), Removed("Circle")>>
      [] cls = "RoundedRectangularPlateWithPins" ->
             << Added("RoundedCornerRectangle"), Added("Circle"), Added("Circle"),
                Added("Circle"), Added("Circle") >>
      [] cls = "GenevaDiskAndHoles" ->
             << <<"Lathe", "Polygon", FALSE>>, Removed("Circle"), Added("Circle"),
                Added("Circle") >>
      [] cls = "GenevaDriveCrossSection" ->
             << Added("Circle"),
                Removed("Circle"), Removed("Circle"), Removed("Circle"),
                Removed("Circle"),
                Removed("Polygon"), Removed("Polygon"), Removed("Polygon"),
                Removed("Polygon"),
                Removed("Circle") >>

(* Which operation is which, where the kinds alone do not tell. *)
ExpectedRoles(o) ==
    CASE o.cls = "BallBearing626D" -> TRUE
      [] o.cls = "RoundedRectangularPlateWithPins" ->
             /\ o.ops[2].shape.radius = DivN(Plate_LIP_DIAMETER, 2)
             /\ o.ops[3].shape.radius = DivN(Plate_PIN_DIAMETER, 2)
             /\ o.ops[4].shape.radius = DivN(Plate_LIP_DIAMETER, 2)
             /\ o.ops[5].shape.radius = DivN(Plate_PIN_DIAMETER, 2)
             /\ o.ops[2].shape.center = o.ops[3].shape.center
             /\ o.ops[4].shape.center = o.ops[5].shape.center
             /\ o.ops[2].shape.center # o.ops[4].shape.center
      [] o.cls = "GenevaDiskAndHoles" ->
             /\ DirectionDeg(o.ops[2].shape.center) = 90
             /\ DirectionDeg(o.ops[3].shape.center) = 0
             /\ DirectionDeg(o.ops[4].shape.center) = 90
             /\ o.ops[3].shape.radius = DivN(PIN_DIAMETER, 2)
             /\ o.ops[4].shape.radius = DivN(PIN_DIAMETER, 2)
      [] o.cls = "GenevaDriveCrossSection" ->
             /\ o.ops[1].shape.center = Origin
             /\ \A k \in 2..5 : o.ops[k].shape.center # Origin
             /\ o.ops[10].shape.center = Origin
             /\ o.ops[10].shape.radius = DivN(BEARING_DIAMETER, 2)

Painted(o) == o.color # "none"

C4_State ==
    /\ \A o \in AllParts :
          /\ IsPrefix(Sigs(o), ExpectedSigs(o.cls))
          /\ (Len(o.ops) >= 1 => ~o.ops[1].cut)
          /\ (Painted(o) => Sigs(o) = ExpectedSigs(o.cls) /\ ExpectedRoles(o))
    /\ \A o \in Returned \cap AllParts : Painted(o)
    /\ \A o1, o2 \in AllParts :
          (o1.cls = o2.cls /\ Painted(o1) /\ Painted(o2)) => o1 = o2

C4_Step ==
    (Len(cur) = 1 /\ ~IsAssembly(cur[1])) =>
        /\ Painted(cur[1]) => (cur' = <<>> /\ objs' = Append(objs, cur[1]))
        /\ Len(cur') = 1 =>
              /\ IsPrefix(cur[1].ops, cur'[1].ops)
              /\ (Painted(cur'[1]) => cur'[1].ops = cur[1].ops)

---------------------------------------------------------------------------
GenevaDrives == {o \in Everything : o.cls = "GenevaDrive"}

Assemblies == {o \in Everything : IsAssembly(o)}

(* C3: a constructed GenevaDrive holds [PlateWithBearingsAssembly,          *)
(* GenevaDiskAndHoles, GenevaDriveCrossSection] in that order and its plate *)
(* assembly holds [RoundedRectangularPlateWithPins, BallBearing626D,        *)
(* BallBearing626D]; only the plate and the plate assembly are added        *)
(* without a transform; the disk is at x = -PIN_DISTANCE/2,                 *)
(* z = CIRCLES_PART_HEIGHT and the cross-section at x = +PIN_DISTANCE/2,    *)
(* z = CROSS_PART_HEIGHT, each on the axis of its own bearing.              *)
C3_AssemblyStructure ==
    /\ \A g \in GenevaDrives :
          LET n == Len(g.components)
              half == DivN(PIN_DISTANCE, 2)
              bearing(k) == g.components[1].obj.components[k + 1].tf[1]
          IN  /\ IsPrefix(Classes(g),
                          << "PlateWithBearingsAssembly", "GenevaDiskAndHoles",
                             "GenevaDriveCrossSection" >>)
              /\ (g \in Returned \/ pc = "return") => n = 3
              /\ n >= 2 =>
                    /\ g.components[2].tf =
                         <<[x |-> Neg(half), y |-> Zero, z |-> CIRCLES_PART_HEIGHT]>>
                    /\ bearing(1).x = g.components[2].tf[1].x
                    /\ bearing(1).y = g.components[2].tf[1].y
              /\ n >= 3 =>
                    /\ g.components[3].tf =
                         <<[x |-> half, y |-> Zero, z |-> CROSS_PART_HEIGHT]>>
                    /\ bearing(2).x = g.components[3].tf[1].x
                    /\ bearing(2).y = g.components[3].tf[1].y
    /\ \A a \in Assemblies :
          a.cls = "PlateWithBearingsAssembly" =>
              /\ (a \in Returned \/ pc = "return") => Len(a.components) = 3
              /\ Len(a.components) > 0 =>
                    Classes(a) = << "RoundedRectangularPlateWithPins",
                                    "BallBearing626D", "BallBearing626D" >>
    /\ \A a \in Assemblies :
          \A k \in 1..Len(a.components) :
              (a.components[k].tf = NoTf) <=>
                  (a.components[k].obj.cls \in
                      {"RoundedRectangularPlateWithPins", "PlateWithBearingsAssembly"})

(* A GenevaDrive() call has returned. *)
C3_Witness ==
    \E k \in 1..Len(objs) :
        objs[k].cls = "GenevaDrive" /\ Len(objs[k].components) = 3

---------------------------------------------------------------------------
(* The corners of a slot profile, from its lines, and four times its centre. *)
SlotCorners(shape) ==
    << shape.lines[1][1], shape.lines[1][2], shape.lines[2][2], shape.lines[3][2] >>

SlotCentreTimes4(shape) ==
    LET c == SlotCorners(shape)
    IN  << Add(Add(c[1][1], c[2][1]), Add(c[3][1], c[4][1])),
           Add(Add(c[1][2], c[2][2]), Add(c[3][2], c[4][2])) >>

SlotCuts(o) ==
    {k \in 1..Len(o.ops) : o.ops[k].cut /\ o.ops[k].shape.shape = "Polygon"}

LockingCuts(o) ==
    {k \in 1..Len(o.ops) :
        /\ o.ops[k].cut
        /\ o.ops[k].shape.shape = "Circle"
        /\ o.ops[k].shape.center # Origin}

SlotsCut(o) == Painted(o) \/ Len(o.ops) >= 9

(* C2: a GenevaDriveCrossSection gets exactly four pin-slot cuts, the i-th  *)
(* (i in 0..3) centred at distance CENTER_SLOT_OFFSET from the origin in    *)
(* the direction 45 + 90*i degrees, and exactly four circular locking cuts  *)
(* centred at distance CUT_OFFSET in the directions 0, 90, 180 and 270      *)
(* degrees, so that slots and locking cuts alternate every 45 degrees.      *)
C2_FourSlotsFourLockingCuts ==
    \A o \in PartsOf("GenevaDriveCrossSection") :
        SlotsCut(o) =>
            /\ SlotCuts(o) = 6..9
            /\ \A i \in 0..3 :
                  LET c4 == SlotCentreTimes4(o.ops[6 + i].shape)
                  IN  /\ Len(o.ops[6 + i].shape.lines) = 3
                      /\ DirectionDeg(c4) = 45 + 90 * i
                      /\ NormSq(c4) = NormSq(<<Mul(Num(4), CENTER_SLOT_OFFSET), Zero>>)
            /\ LockingCuts(o) = 2..5
            /\ {DirectionDeg(o.ops[k].shape.center) : k \in 2..5} = {0, 90, 180, 270}
            /\ \A k \in 2..5 :
                  /\ NormSq(o.ops[k].shape.center) = NormSq(<<CUT_OFFSET, Zero>>)
                  /\ o.ops[k].shape.radius = CUT_RADIUS
            /\ {DirectionDeg(SlotCentreTimes4(o.ops[k].shape)) : k \in SlotCuts(o)}
                 \cup {DirectionDeg(o.ops[k].shape.center) : k \in LockingCuts(o)}
                 = {45 * j : j \in 0..7}

(* cut_pin_slot has just run in a GenevaDriveCrossSection() call. *)
C2_Witness ==
    /\ pc = "GenevaDriveCrossSection.cut_bearing_hole"
    /\ Len(cur) = 1
    /\ Cardinality(SlotCuts(cur[1])) = 4

===========================================================================
